---- MODULE Spec2Model ----
(***************************************************************************)
(* Model of lops/utils/tapers.py: hanningtaper, cosinetaper, taper2d and   *)
(* taper3d.  Every function is pure, so the state machine is: a call with  *)
(* its arguments is drawn in Init, and one action per function runs the    *)
(* whole function and records its outcome (the returned array or the       *)
(* raised exception) and the figures it handed to the plotting library.    *)
(*                                                                         *)
(* Floating-point numbers are fixed-point integers with Scale units per    *)
(* 1.0 (so 1.0 is One, 0.5 is Half), plus the IEEE not-a-number NaN.       *)
(* Python 3 semantics: / is true division, // is floor division.           *)
(***************************************************************************)
EXTENDS Integers, Sequences, FiniteSets, TLC

\* ---------------------------------------------------------------- bounds
MaxMask == 10      \* largest nmask of a 1D or 2D call
MaxTap == 6        \* largest ntap of a 1D or 2D call
NegTap == 2        \* ntap ranges down to -NegTap
MaxNt == 2         \* largest nt
MaxMask3 == 4      \* largest nmask[0], nmask[1] of a 3D call
MaxTap3 == 2       \* largest ntap[0], ntap[1] of a 3D call
NegTap3 == 1       \* ntap[0], ntap[1] range down to -NegTap3

\* ------------------------------------------------------- floating point
Scale == 100 * 100
One == Scale
Half == Scale \div 2
\* 3.1416 in units of 1/Scale
PiFix == (31416 * Scale) \div 10000
NaN == 0 - 10 * Scale * Scale

IsNaN(x) == x = NaN

\* IEEE comparison ==: false as soon as one side is NaN
FEq(x, y) == ~IsNaN(x) /\ ~IsNaN(y) /\ x = y

FAdd(x, y) == IF IsNaN(x) \/ IsNaN(y) THEN NaN ELSE x + y

\* product, rounded to the nearest unit
FMul(x, y) ==
    IF IsNaN(x) \/ IsNaN(y) THEN NaN ELSE (x * y + Half) \div Scale

\* x ** exponent for the two exponents cosinetaper uses
FPow(x, exponent) == IF exponent = 1 THEN x ELSE FMul(x, x)

\* a / b of two ints as a float (exact whenever b divides a * Scale)
TrueDiv(a, b) == (a * Scale) \div b

\* '%d' % x and int(x) of a float: truncation toward zero
FormatD(x) == IF x >= 0 THEN x \div Scale ELSE 0 - ((0 - x) \div Scale)

\* cos(x) for a fixed-point x in [0, pi/2], by its Taylor series
CosSeries(x) ==
    LET x2 == (x * x) \div Scale
        t1 == x2 \div 2
        t2 == (t1 * x2) \div (12 * Scale)
        t3 == (t2 * x2) \div (30 * Scale)
        t4 == (t3 * x2) \div (56 * Scale)
        t5 == (t4 * x2) \div (90 * Scale)
    IN  Scale - t1 + t2 - t3 + t4 - t5

\* cos(pi * a / b): the angles of both windows are rational multiples of pi.
\* b = 0 is the float division x / 0.0: 0/0 is nan, x/0 is +-inf, and the
\* cosine of either is nan.
CosPi(a, b) ==
    IF b = 0 THEN NaN
    ELSE LET p == IF a < 0 THEN 0 - a ELSE a
             q == IF b < 0 THEN 0 - b ELSE b
             r == p % (2 * q)
             f == IF r > q THEN 2 * q - r ELSE r
         IN  IF 2 * f = q THEN 0
             ELSE IF 2 * f < q THEN CosSeries((PiFix * f) \div q)
             ELSE 0 - CosSeries((PiFix * (q - f)) \div q)

\* ------------------------------------------------------ numpy primitives
\* np.ones(n) for n >= 0
ones(n) == [i \in 1..n |-> One]

\* np.hanning(M): empty for M < 1, [1.] for M = 1, otherwise
\* 0.5 - 0.5*cos(2*pi*n/(M-1)) for n = 0..M-1
hanning(M) ==
    IF M < 1 THEN << >>
    ELSE IF M = 1 THEN << One >>
    ELSE [i \in 1..M |-> Half - FMul(Half, CosPi(2 * (i - 1), M - 1))]

\* a[:k]
SliceTo(a, k) ==
    LET n == Len(a)
        stop == IF k >= 0 THEN (IF k < n THEN k ELSE n)
                ELSE (IF n + k > 0 THEN n + k ELSE 0)
    IN  [i \in 1..stop |-> a[i]]

\* np.flipud of a 1D array
flipud(a) == [i \in 1..Len(a) |-> a[Len(a) + 1 - i]]

\* np.concatenate of three 1D arrays
concatenate(a, b, c) == a \o b \o c

\* ------------------------------------------------------------ outcomes
None == << >>
NoFigures == << >>

\* a normal return of value v, after rendering figs
Return(v, figs) ==
    [returned |-> TRUE, value |-> v, raised |-> "none", args |-> << >>,
     figures |-> figs]

\* an exception of the given type, with the values formatted into its message
Raise(type, args, figs) ==
    [returned |-> FALSE, value |-> None, raised |-> type, args |-> args,
     figures |-> figs]

\* ------------------------------------------------------------ 1D tapers
\* ntap_min of hanningtaper: the float nmask/2 or (nmask-1)/2
ntap_min(nmask) ==
    IF nmask % 2 = 0 THEN TrueDiv(nmask, 2) ELSE TrueDiv(nmask - 1, 2)

\* hanningtaper with the validation off by one: nmask // ntap <= 2 rejected
hanningtaper_strict(nmask, ntap) ==
    IF ntap > 0 /\ (nmask \div ntap) <= 2
    THEN Raise("ValueError", << ntap, FormatD(ntap_min(nmask)) >>, NoFigures)
    ELSE LET han_win == hanning(ntap * 2 - 1)
             st_tpr == SliceTo(han_win, ntap)
             mid_tpr == ones(nmask - (2 * ntap))
             end_tpr == flipud(st_tpr)
         IN  Return(concatenate(st_tpr, mid_tpr, end_tpr), NoFigures)

\* hanningtaper with the falling edge not reversed
hanningtaper_noflip(nmask, ntap) ==
    IF ntap > 0 /\ (nmask \div ntap) < 2
    THEN Raise("ValueError", << ntap, FormatD(ntap_min(nmask)) >>, NoFigures)
    ELSE LET han_win == hanning(ntap * 2 - 1)
             st_tpr == SliceTo(han_win, ntap)
             mid_tpr == ones(nmask - (2 * ntap))
             end_tpr == st_tpr
         IN  Return(concatenate(st_tpr, mid_tpr, end_tpr), NoFigures)

\* hanningtaper cutting its edge from a window of 2*ntap+1 points
hanningtaper_widewin(nmask, ntap) ==
    IF ntap > 0 /\ (nmask \div ntap) < 2
    THEN Raise("ValueError", << ntap, FormatD(ntap_min(nmask)) >>, NoFigures)
    ELSE LET han_win == hanning(ntap * 2 + 1)
             st_tpr == SliceTo(han_win, ntap)
             mid_tpr == ones(nmask - (2 * ntap))
             end_tpr == flipud(st_tpr)
         IN  Return(concatenate(st_tpr, mid_tpr, end_tpr), NoFigures)

hanningtaper(nmask, ntap) ==
    IF ntap > 0 /\ (nmask \div ntap) < 2
    THEN Raise("ValueError", << ntap, FormatD(ntap_min(nmask)) >>, NoFigures)
    ELSE LET han_win == hanning(ntap * 2 - 1)
             st_tpr == SliceTo(han_win, ntap)
             mid_tpr == ones(nmask - (2 * ntap))
             end_tpr == flipud(st_tpr)
             tpr_1d == concatenate(st_tpr, mid_tpr, end_tpr)
         IN  Return(tpr_1d, NoFigures)

cosinetaper(nmask, square) ==
    LET exponent == IF ~square THEN 1 ELSE 2
        \* (i - (nmask-1)/2) * pi / ((nmask-1)/2) = pi * (2i - (nmask-1)) / (nmask-1)
        tpr_1d == [i \in 1..nmask |->
                     FPow(FMul(Half,
                               FAdd(CosPi(2 * (i - 1) - (nmask - 1), nmask - 1),
                                    One)),
                          exponent)]
    IN  Return(tpr_1d, NoFigures)

\* --------------------------------------------------- numpy nd-arrays
\* A 2D or 3D array is its shape and its nested rows.
\* a[:, np.newaxis] of a 1D array: a column, shape (n, 1)
newaxis1(a) ==
    [shape |-> << Len(a), 1 >>, data |-> [i \in 1..Len(a) |-> << a[i] >>]]

\* A[:, :, np.newaxis] of a 2D array: shape (s0, s1, 1)
newaxis2(A) ==
    [shape |-> << A.shape[1], A.shape[2], 1 >>,
     data |-> [i \in 1..A.shape[1] |->
                 [j \in 1..A.shape[2] |-> << A.data[i][j] >>]]]

\* np.outer of two 1D arrays
outer(a, b) ==
    [shape |-> << Len(a), Len(b) >>,
     data |-> [i \in 1..Len(a) |-> [j \in 1..Len(b) |-> FMul(a[i], b[j])]]]

\* np.tile(A, reps) for non-negative reps: reps shorter than A's rank are
\* promoted by prepending ones; axis d of the result has shape[d] * reps[d]
\* entries, which repeat A along that axis.
tile(A, reps) ==
    LET d == Len(A.shape)
        pad == d - Len(reps)
        tup == [k \in 1..d |-> IF k <= pad THEN 1 ELSE reps[k - pad]]
        shape_out == [k \in 1..d |-> A.shape[k] * tup[k]]
        src(k, i) == ((i - 1) % A.shape[k]) + 1
    IN  IF d = 2
        THEN [shape |-> shape_out,
              data |-> [i \in 1..shape_out[1] |->
                          [j \in 1..shape_out[2] |->
                             A.data[src(1, i)][src(2, j)]]]]
        ELSE [shape |-> shape_out,
              data |-> [i \in 1..shape_out[1] |->
                          [j \in 1..shape_out[2] |->
                             [k \in 1..shape_out[3] |->
                                A.data[src(1, i)][src(2, j)][src(3, k)]]]]]

\* whether integer index k is within an axis of n entries
InBounds(k, n) == (0 - n) <= k /\ k < n

\* A[:, :, k] of a 3D array, for an index that is in bounds
slice3(A, k) ==
    LET kk == IF k < 0 THEN k + A.shape[3] ELSE k
    IN  [shape |-> << A.shape[1], A.shape[2] >>,
         data |-> [i \in 1..A.shape[1] |->
                     [j \in 1..A.shape[2] |-> A.data[i][j][kk + 1]]]]

\* ----------------------------------------------------------- plotting
\* what plt.figure() followed by the drawing calls leaves on screen
EmptyFigure ==
    [artist |-> "none", data |-> << >>, title |-> "", xlabel |-> "",
     ylabel |-> ""]

LinePlot(y, title) ==
    [artist |-> "plot", data |-> y, title |-> title, xlabel |-> "",
     ylabel |-> ""]

Image(A, title, xlabel, ylabel) ==
    [artist |-> "imshow", data |-> A, title |-> title, xlabel |-> xlabel,
     ylabel |-> ylabel]

\* --------------------------------------------------------- 2D and 3D
taper2d(nt, nmask, ntap, tapertype, plotflag) ==
    LET r_1d == IF tapertype = "hanning" THEN hanningtaper(nmask, ntap)
                ELSE IF tapertype = "cosine" THEN cosinetaper(nmask, FALSE)
                ELSE IF tapertype = "cosinesquare"
                     THEN cosinetaper(nmask, TRUE)
                ELSE Return(ones(nmask), NoFigures)
    IN  IF ~r_1d.returned THEN r_1d
        ELSE LET tpr_1d == r_1d.value
                 tpr_2d == tile(newaxis1(tpr_1d), << 1, nt >>)
             IN  IF plotflag
                 THEN Return(tpr_2d, << LinePlot(tpr_1d, "Taper") >>)
                 ELSE Return(tpr_2d, NoFigures)

taper3d(nt, nmask, ntap, tapertype, plotflag) ==
    LET nmasky == nmask[1]
        nmaskx == nmask[2]
        ntapy == ntap[1]
        ntapx == ntap[2]
        r_y == IF tapertype = "hanning" THEN hanningtaper(nmasky, ntapy)
               ELSE IF tapertype = "cosine" THEN cosinetaper(nmasky, FALSE)
               ELSE IF tapertype = "cosinesquare"
                    THEN cosinetaper(nmasky, TRUE)
               ELSE Return(ones(nmasky), NoFigures)
        r_x == IF tapertype = "hanning" THEN hanningtaper(nmaskx, ntapx)
               ELSE IF tapertype = "cosine" THEN cosinetaper(nmaskx, FALSE)
               ELSE IF tapertype = "cosinesquare"
                    THEN cosinetaper(nmaskx, TRUE)
               ELSE Return(ones(nmaskx), NoFigures)
    IN  IF ~r_y.returned THEN r_y
        ELSE IF ~r_x.returned THEN r_x
        ELSE LET tpr_yx == outer(r_y.value, r_x.value)
                 tpr_3d == tile(newaxis2(tpr_yx), << 1, nt >>)
                 mid == FormatD(TrueDiv(nt, 2))
             IN  IF ~plotflag THEN Return(tpr_3d, NoFigures)
                 ELSE IF ~InBounds(mid, tpr_3d.shape[3])
                 THEN Raise("IndexError", << mid, 2, tpr_3d.shape[3] >>,
                            << EmptyFigure >>)
                 ELSE Return(tpr_3d,
                             << Image(slice3(tpr_3d, mid),
                                      "Taper in y-x slice", "x", "y") >>)

\* ------------------------------------------------------- state machine
VARIABLES call, pc, outcome, figures
vars == << call, pc, outcome, figures >>

\* the values of tapertype: the three names, Python's None and another string
TaperTypes == {"hanning", "cosine", "cosinesquare", "None", "none"}

HanningCalls ==
    [fn : {"hanningtaper"}, nmask : 0..MaxMask, ntap : (0 - NegTap)..MaxTap]

CosineCalls == [fn : {"cosinetaper"}, nmask : 0..MaxMask, square : BOOLEAN]

Taper2dCalls ==
    [fn : {"taper2d"}, nt : 0..MaxNt, nmask : 0..MaxMask,
     ntap : (0 - NegTap)..MaxTap, tapertype : TaperTypes,
     plotflag : BOOLEAN]

Taper3dCalls ==
    [fn : {"taper3d"}, nt : 0..MaxNt,
     nmask : (0..MaxMask3) \X (0..MaxMask3),
     ntap : ((0 - NegTap3)..MaxTap3) \X ((0 - NegTap3)..MaxTap3),
     tapertype : TaperTypes, plotflag : BOOLEAN]

Pending == Raise("pending", << >>, NoFigures)

Init ==
    /\ call \in HanningCalls \cup CosineCalls \cup Taper2dCalls
                \cup Taper3dCalls
    /\ pc = "call"
    /\ outcome = Pending
    /\ figures = NoFigures

\* the caller's view of a result: what came back, and what was drawn
Finish(r) ==
    /\ outcome' = [returned |-> r.returned, value |-> r.value,
                   raised |-> r.raised, args |-> r.args]
    /\ figures' = r.figures
    /\ pc' = "done"
    /\ UNCHANGED call

Call_hanningtaper ==
    /\ pc = "call"
    /\ call.fn = "hanningtaper"
    /\ Finish(hanningtaper(call.nmask, call.ntap))

Call_cosinetaper ==
    /\ pc = "call"
    /\ call.fn = "cosinetaper"
    /\ Finish(cosinetaper(call.nmask, call.square))

Call_taper2d ==
    /\ pc = "call"
    /\ call.fn = "taper2d"
    /\ Finish(taper2d(call.nt, call.nmask, call.ntap, call.tapertype,
                      call.plotflag))

Call_taper3d ==
    /\ pc = "call"
    /\ call.fn = "taper3d"
    /\ Finish(taper3d(call.nt, call.nmask, call.ntap, call.tapertype,
                      call.plotflag))

Next ==
    \/ Call_hanningtaper
    \/ Call_cosinetaper
    \/ Call_taper2d
    \/ Call_taper3d

Spec == Init /\ [][Next]_vars

Done(fn) == pc = "done" /\ call.fn = fn

\* ================================================================ claims
\* floor(nmask / 2), stated without division
HalfFloor(nmask) == CHOOSE m \in 0..nmask : 2 * m <= nmask /\ nmask < 2 * m + 2

\* the runs of hanningtaper whose arguments pass the validation
ValidHanning ==
    /\ Done("hanningtaper")
    /\ call.ntap > 0
    /\ call.nmask \div call.ntap >= 2

\* C1: for nmask >= 0 and ntap > 0, hanningtaper raises ValueError exactly
\* when nmask // ntap < 2, i.e. when ntap > floor(nmask/2); the error carries
\* ntap and floor(nmask/2), which is the largest ntap accepted for this
\* nmask; a failing call returns no array.
C1_InvalidNtapRejected ==
    (Done("hanningtaper") /\ call.ntap > 0) =>
        LET nmask == call.nmask
            ntap == call.ntap
            most == HalfFloor(nmask)
            failed == outcome.raised = "ValueError"
        IN  /\ failed <=> (nmask \div ntap) < 2
            /\ failed <=> ntap > most
            /\ failed <=> ~outcome.returned
            /\ failed =>
                 /\ outcome.args = << ntap, most >>
                 /\ outcome.value = None
                 /\ hanningtaper(nmask, most).returned
                 /\ \A t \in (most + 1)..(nmask + 1) :
                        ~hanningtaper(nmask, t).returned

\* C1 witness: hanningtaper(5, 3) was rejected, naming 3 and the maximum 2
C1_Witness ==
    /\ Done("hanningtaper")
    /\ call.nmask = 5
    /\ call.ntap = 3
    /\ outcome.raised = "ValueError"
    /\ outcome.args = << 3, 2 >>

\* C2: a validated hanningtaper(nmask, ntap) starts with the first ntap
\* samples of the (2*ntap-1)-point Hanning window, is exactly 1 on
\* [ntap, nmask-ntap), and ends with the rising edge reversed.
C2_EdgePlateauEdge ==
    ValidHanning =>
        LET nmask == call.nmask
            ntap == call.ntap
            v == outcome.value
            w == hanning(2 * ntap - 1)
        IN  /\ outcome.returned
            /\ Len(v) = nmask
            /\ \A i \in 0..(ntap - 1) : v[i + 1] = w[i + 1]
            /\ \A i \in ntap..(nmask - ntap - 1) : v[i + 1] = One
            /\ \A i \in 0..(ntap - 1) : v[nmask - i] = v[i + 1]

\* C2 witness: hanningtaper(10, 3) returned a rising edge that is not flat,
\* a plateau of four ones and the mirrored edge
C2_Witness ==
    /\ ValidHanning
    /\ call.nmask = 10
    /\ call.ntap = 3
    /\ outcome.returned
    /\ outcome.value[1] < outcome.value[2]
    /\ outcome.value[2] < outcome.value[3]
    /\ outcome.value[4] = One
    /\ outcome.value[7] = One
    /\ outcome.value[9] = outcome.value[2]

\* C3: whenever hanningtaper returns (any ntap, also ntap <= 0), the result
\* has exactly nmask samples.
C3_LengthIsNmask ==
    (Done("hanningtaper") /\ outcome.returned) =>
        Len(outcome.value) = call.nmask

\* the 1D taper the tapertype dispatch selects
Taper1D(tapertype, nmask, ntap) ==
    IF tapertype = "hanning" THEN hanningtaper(nmask, ntap).value
    ELSE IF tapertype = "cosine" THEN cosinetaper(nmask, FALSE).value
    ELSE IF tapertype = "cosinesquare" THEN cosinetaper(nmask, TRUE).value
    ELSE [i \in 1..nmask |-> One]

\* C4: whenever taper2d returns, the result has shape (nmask, nt) and each
\* of its nt columns is the 1D taper selected by tapertype.
C4_Taper2dColumns ==
    (Done("taper2d") /\ outcome.returned) =>
        LET A == outcome.value
            t == Taper1D(call.tapertype, call.nmask, call.ntap)
        IN  /\ A.shape = << call.nmask, call.nt >>
            /\ \A j \in 1..call.nt :
                   [i \in 1..A.shape[1] |-> A.data[i][j]] = t

\* C5: whenever taper3d returns, the result has shape (my, mx, nt) and its
\* value at (y, x, k) is taper_y[y] * taper_x[x] for every k.
C5_Taper3dOuterProduct ==
    (Done("taper3d") /\ outcome.returned) =>
        LET A == outcome.value
            ty == Taper1D(call.tapertype, call.nmask[1], call.ntap[1])
            tx == Taper1D(call.tapertype, call.nmask[2], call.ntap[2])
        IN  /\ A.shape = << call.nmask[1], call.nmask[2], call.nt >>
            /\ \A y \in 1..call.nmask[1], x \in 1..call.nmask[2],
                  k \in 1..call.nt :
                   A.data[y][x][k] = FMul(ty[y], tx[x])

\* what the caller sees of a result
Seen(r) ==
    [returned |-> r.returned, value |-> r.value, raised |-> r.raised,
     args |-> r.args]

\* C6: taper2d and taper3d fail exactly when a delegated 1D constructor
\* fails, with its error unchanged: only under 'hanning', on a rejected
\* (nmask, ntap); taper3d reports the y axis first; no other tapertype fails.
C6_ErrorsOnlyFromHanning ==
    /\ Done("taper2d") =>
          LET h == hanningtaper(call.nmask, call.ntap)
              bad == call.tapertype = "hanning" /\ ~h.returned
          IN  /\ ~outcome.returned <=> bad
              /\ bad => outcome = Seen(h)
    /\ Done("taper3d") =>
          LET hy == hanningtaper(call.nmask[1], call.ntap[1])
              hx == hanningtaper(call.nmask[2], call.ntap[2])
              bad == /\ call.tapertype = "hanning"
                     /\ (~hy.returned \/ ~hx.returned)
          IN  /\ ~outcome.returned <=> bad
              /\ bad => outcome = Seen(IF ~hy.returned THEN hy ELSE hx)

\* C7: cosinetaper(nmask, square=false) is symmetric,
\* taper[i] == taper[nmask-1-i], and is 1 at the center of an odd nmask.
C7_CosineSymmetricPeak ==
    (Done("cosinetaper") /\ ~call.square) =>
        LET nmask == call.nmask
            v == outcome.value
        IN  /\ \A i \in 0..(nmask - 1) : FEq(v[i + 1], v[nmask - i])
            /\ nmask % 2 = 1 => FEq(v[(nmask - 1) \div 2 + 1], One)

InUnitInterval(x) == ~IsNaN(x) /\ 0 <= x /\ x <= One

\* C8: every element of every returned array lies in [0, 1].
C8_ValuesInUnitInterval ==
    (pc = "done" /\ outcome.returned) =>
        LET v == outcome.value
        IN  IF call.fn \in {"hanningtaper", "cosinetaper"}
            THEN \A i \in 1..Len(v) : InUnitInterval(v[i])
            ELSE IF call.fn = "taper2d"
            THEN \A i \in 1..v.shape[1], j \in 1..v.shape[2] :
                     InUnitInterval(v.data[i][j])
            ELSE \A i \in 1..v.shape[1], j \in 1..v.shape[2],
                    k \in 1..v.shape[3] :
                     InUnitInterval(v.data[i][j][k])

\* within 0.01 of zero
NearZero(x) == ~IsNaN(x) /\ 0 - (Scale \div 100) <= x /\ x <= Scale \div 100

\* C9 as stated: the first and last value of a validated hanningtaper are
\* near 0, both being the first sample of the (2*ntap-1)-point window.
C9_EdgesNearZero ==
    ValidHanning =>
        LET v == outcome.value
            w == hanning(2 * call.ntap - 1)
        IN  /\ v[1] = w[1]
            /\ v[call.nmask] = w[1]
            /\ NearZero(v[1])
            /\ NearZero(v[call.nmask])

\* C9 amended: the first and last value of a validated hanningtaper both
\* equal the first sample of the (2*ntap-1)-point Hanning window, which is
\* 0 when ntap >= 2 and 1 when ntap = 1 (the one-point window is [1]).
C9_EdgesAreFirstWindowSample ==
    ValidHanning =>
        LET v == outcome.value
            w == hanning(2 * call.ntap - 1)
            edge == IF call.ntap >= 2 THEN 0 ELSE One
        IN  /\ v[1] = w[1]
            /\ v[call.nmask] = w[1]
            /\ v[1] = edge
            /\ v[call.nmask] = edge

\* C9 witness: a validated taper with ntap >= 2 whose two ends are 0 and
\* whose plateau is not
C9_Witness ==
    /\ ValidHanning
    /\ call.ntap >= 2
    /\ call.nmask > 2 * call.ntap
    /\ outcome.value[1] = 0
    /\ outcome.value[call.nmask] = 0
    /\ outcome.value[call.ntap + 1] = One

\* C10: the outcome of taper2d and taper3d (array or error) is the same
\* with plotflag set as with it unset.
C10_PlotflagNoInfluence ==
    /\ Done("taper2d") =>
          outcome = Seen(taper2d(call.nt, call.nmask, call.ntap,
                                 call.tapertype, ~call.plotflag))
    /\ Done("taper3d") =>
          outcome = Seen(taper3d(call.nt, call.nmask, call.ntap,
                                 call.tapertype, ~call.plotflag))

====
